---- MODULE Spec2Model ----
(***************************************************************************)
(* Symptom normalization and disease matching of SymptomAgent/tools.py,    *)
(* with their callers.                                                     *)
(*                                                                         *)
(* A Python string is a sequence of one-character strings, so that         *)
(* str.lower() and str.strip() are computed character by character.       *)
(* An optional value (Python None or a string) is a sequence of length 0   *)
(* or 1: None is <<>>, the string x is <<x>>.                              *)
(* Scores of rapidfuzz are on the 0..100 scale of the library; cosine      *)
(* similarities are in hundredths (0.85 is 85, -1 is -100).                *)
(***************************************************************************)
EXTENDS Integers, Sequences, FiniteSets, TLC

\* ------------------------------------------------------------------------
\* Bounds and inputs

\* longest vocabulary list handed to normalize_symptom
MaxVocab == 2

\* symptom names a vocabulary is built from: an alias key, an alias target,
\* and one name in two casings
VocabularyPool ==
    { <<"h","t","n">>,
      <<"h","y","p","e","r","t","e","n","s","i","o","n">>,
      <<"C","o","u","g","h">>,
      <<"c","o","u","g","h">> }

\* raw inputs: alias keys (with case and blanks), names of the pool in either
\* casing, a misspelling that no table knows, and a blank token
RawInputs ==
    { <<" ","H","T","N">>,
      <<"h","t","n">>,
      <<"C","o","u","g","h">>,
      <<"c","o","u","g","h"," ">>,
      <<"C","O","G","H">>,
      <<" ">> }

\* the vocabulary of Scenario B, in lists of any order
ScenarioVocabulary ==
    { <<"f","e","v","e","r">>,
      <<"c","o","u","g","h">>,
      <<"h","e","a","d","a","c","h","e">> }

\* the inputs of Scenario B: "sorethroat", the same with case and a blank, a
\* misspelling of it, and a name of the vocabulary
ScenarioInputs ==
    { <<"s","o","r","e","t","h","r","o","a","t">>,
      <<"S","o","r","e","T","h","r","o","a","t"," ">>,
      <<"s","o","r","e","t","h","r","o","t">>,
      <<"c","o","u","g","h">> }

\* the cosine similarities of Scenario B, of which 0.4 is the best
ScenarioCosines == {20, 40}

\* values the fuzzy scorer can take, around the threshold
FuzzyScores == {80, 81}

\* values the cosine similarity can take, around the cut
CosineScores == {85, 86}

\* ------------------------------------------------------------------------
\* Python values

None == <<>>

Some(x) == <<x>>

\* truth value of an optional string in `if x:` (None and "" are false)
Truthy(opt) == opt # None /\ opt[1] # <<>>

UpperChars ==
    <<"A","B","C","D","E","F","G","H","I","J","K","L","M",
      "N","O","P","Q","R","S","T","U","V","W","X","Y","Z">>

LowerChars ==
    <<"a","b","c","d","e","f","g","h","i","j","k","l","m",
      "n","o","p","q","r","s","t","u","v","w","x","y","z">>

Whitespace == {" ", "\t", "\n", "\r"}

lower_char(c) ==
    IF \E i \in 1..Len(UpperChars) : UpperChars[i] = c
    THEN LowerChars[CHOOSE i \in 1..Len(UpperChars) : UpperChars[i] = c]
    ELSE c

\* str.lower()
lower(str) == [i \in 1..Len(str) |-> lower_char(str[i])]

\* str.strip(): drops the leading and the trailing whitespace
strip(str) ==
    LET keep == {i \in 1..Len(str) : str[i] \notin Whitespace}
    IN  IF keep = {} THEN <<>>
        ELSE LET first == CHOOSE i \in keep : \A j \in keep : i <= j
                 last  == CHOOSE i \in keep : \A j \in keep : j <= i
             IN  SubSeq(str, first, last)

\* ------------------------------------------------------------------------
\* Rule-based known typo/abbreviation corrections

\* the table without its entry for "sorethroat"
SYMPTOM_MAP_NoSoreThroat ==
       (<<"f","v","r">>
          :> <<"f","e","v","e","r">>)
    @@ (<<"h","t","n">>
          :> <<"h","y","p","e","r","t","e","n","s","i","o","n">>)
    @@ (<<"v","o","m","m","i","t","i","n","g">>
          :> <<"v","o","m","i","t","i","n","g">>)
    @@ (<<"a","b","d"," ","p","a","i","n">>
          :> <<"a","b","d","o","m","i","n","a","l"," ","p","a","i","n">>)
    @@ (<<"c","/","o"," ","c","p">>
          :> <<"c","h","e","s","t"," ","p","a","i","n">>)
    @@ (<<"h","a","e","d","a","c","h","e">>
          :> <<"h","e","a","d","a","c","h","e">>)
    @@ (<<"s","o","b">>
          :> <<"s","h","o","r","t","n","e","s","s"," ","o","f"," ","b","r","e","a","t","h">>)
    @@ (<<"l","o","o","s","e","m","o","t","i","o","n","s">>
          :> <<"d","i","a","r","r","h","e","a">>)

SYMPTOM_MAP ==
       (<<"f","v","r">>
          :> <<"f","e","v","e","r">>)
    @@ (<<"h","t","n">>
          :> <<"h","y","p","e","r","t","e","n","s","i","o","n">>)
    @@ (<<"v","o","m","m","i","t","i","n","g">>
          :> <<"v","o","m","i","t","i","n","g">>)
    @@ (<<"a","b","d"," ","p","a","i","n">>
          :> <<"a","b","d","o","m","i","n","a","l"," ","p","a","i","n">>)
    @@ (<<"c","/","o"," ","c","p">>
          :> <<"c","h","e","s","t"," ","p","a","i","n">>)
    @@ (<<"s","o","r","e","t","h","r","o","a","t">>
          :> <<"s","o","r","e"," ","t","h","r","o","a","t">>)
    @@ (<<"h","a","e","d","a","c","h","e">>
          :> <<"h","e","a","d","a","c","h","e">>)
    @@ (<<"s","o","b">>
          :> <<"s","h","o","r","t","n","e","s","s"," ","o","f"," ","b","r","e","a","t","h">>)
    @@ (<<"l","o","o","s","e","m","o","t","i","o","n","s">>
          :> <<"d","i","a","r","r","h","e","a">>)

\* default of fuzzy_match's threshold parameter
threshold == 80

\* the cut of the semantic layer, 0.85, in hundredths
semantic_cut == 85

\* ------------------------------------------------------------------------
\* State

VARIABLES
    all_symptoms,   \* the vocabulary list every call of the session receives
    fuzzOf,         \* rapidfuzz: score of a query against each vocabulary entry
    semOf,          \* ClinicalBERT: cosine of a query against each lower-cased entry
    pc,             \* position of normalize_symptom: idle, a layer, returned, raised
    symptom,        \* normalize_symptom's argument
    s,              \* its local s
    result,         \* the value returned (None until then)
    exc,            \* the exception that left the call, "none" if none
    consulted,      \* the layers the current call has run, in order
    earlier,        \* an earlier call kept by the caller: <<input, output>> or None
    symptom_nodes,  \* graph store: the names of the Symptom nodes
    has_symptom,    \* graph store: the HAS_SYMPTOM edges, <<disease, symptom>>
    driver_closed,  \* the module-level driver has been closed
    req,            \* the calls of the store functions, one record for each caller
    ses             \* the session (crew.py main or the test runner) in progress

\* the graph store, the driver and the callers of the store functions
storeVars == <<symptom_nodes, has_symptom, driver_closed, req, ses>>

vars == <<all_symptoms, fuzzOf, semOf, pc, symptom, s, result, exc, consulted, earlier,
          storeVars>>

\* what a call of normalize_symptom does not touch
world == <<all_symptoms, fuzzOf, semOf, storeVars>>

\* the callers of the store functions
Requests == {1, 2}

\* a caller that has not called yet
IdleRequest ==
    [pc |-> "idle", fn |-> "none", user_symptoms |-> <<>>, top_n |-> 0,
     result |-> <<>>, exc |-> "none", outage |-> FALSE, closed |-> FALSE,
     session_open |-> FALSE]

\* no session has started
IdleSession ==
    [caller |-> "none", pc |-> "idle", user_symptoms |-> <<>>, i |-> 0,
     phase |-> "filter", valid_symptoms |-> <<>>, invalid_symptoms |-> <<>>,
     outcomes |-> <<>>, normalize_calls |-> 0, matcher_calls |-> <<>>,
     fetch_failed |-> FALSE, raised |-> FALSE,
     vocabulary_fetches |-> 0, fetched |-> <<>>, task |-> <<>>, exit |-> "none"]

\* an empty store that nobody calls
StoreAtRest ==
    /\ symptom_nodes = {}
    /\ has_symptom = {}
    /\ driver_closed = FALSE
    /\ req = [r \in Requests |-> IdleRequest]
    /\ ses = IdleSession

Entries(list) == {list[i] : i \in 1..Len(list)}

LowerEntries(list) == {lower(list[i]) : i \in 1..Len(list)}

SeqsUpTo(S, n) == UNION {[1..k -> S] : k \in 0..n}

\* the vocabularies: lists, in any order, of names that differ (the store
\* holds one Symptom node for a name)
Vocabularies ==
    {list \in SeqsUpTo(VocabularyPool, MaxVocab) :
        \A i, j \in 1..Len(list) : list[i] = list[j] => i = j}

\* ------------------------------------------------------------------------
\* The external scorers

\* rapidfuzz WRatio of the query against one choice: 0 when either string is
\* empty, 100 for equal strings, else the library's score
WRatio(query, choice) ==
    IF query = <<>> \/ choice = <<>> THEN 0
    ELSE IF query = choice THEN 100
    ELSE fuzzOf[choice]

\* torch cosine_similarity of the two [CLS] embeddings; both texts are
\* lower-cased before they are embedded, equal texts have cosine 1
cosine_similarity(query, entry) ==
    IF lower(query) = lower(entry) THEN 100 ELSE semOf[lower(entry)]

\* process.extractOne(query, choices): None for no choices, else
\* (choice, score, index) of the first choice with the highest score
extractOne(query, choices) ==
    IF choices = <<>> THEN None
    ELSE LET best == CHOOSE i \in 1..Len(choices) :
                        /\ \A j \in 1..Len(choices) :
                               WRatio(query, choices[j]) <= WRatio(query, choices[i])
                        /\ \A j \in 1..(i - 1) :
                               WRatio(query, choices[j]) < WRatio(query, choices[i])
         IN  <<choices[best], WRatio(query, choices[best]), best>>

\* fuzzy_match accepting a score equal to the threshold
fuzzy_match_AtLeast(sym, symptoms, thr) ==
    LET one == extractOne(sym, symptoms)
    IN  IF one = None THEN [exc |-> "TypeError", value |-> None]
        ELSE [exc |-> "none",
              value |-> IF one[2] >= thr THEN Some(one[1]) ELSE None]

\* fuzzy_match: [exc, value]; unpacking None raises TypeError
fuzzy_match(sym, symptoms, thr) ==
    LET one == extractOne(sym, symptoms)
    IN  IF one = None THEN [exc |-> "TypeError", value |-> None]
        ELSE [exc |-> "none",
              value |-> IF one[2] > thr THEN Some(one[1]) ELSE None]

\* the loop of get_closest_symptom_with_bert over symptoms[1..n]:
\* <<best_match, max_sim>>, starting from <<None, -1>>
RECURSIVE closest_upto(_, _, _)
closest_upto(sym, symptoms, n) ==
    IF n = 0 THEN <<None, -100>>
    ELSE LET before == closest_upto(sym, symptoms, n - 1)
             sim    == cosine_similarity(sym, symptoms[n])
         IN  IF sim > before[2] THEN <<Some(symptoms[n]), sim>> ELSE before

\* the loop with `sim >= max_sim`: the last entry of maximum similarity wins
RECURSIVE closest_upto_LastMax(_, _, _)
closest_upto_LastMax(sym, symptoms, n) ==
    IF n = 0 THEN <<None, -100>>
    ELSE LET before == closest_upto_LastMax(sym, symptoms, n - 1)
             sim    == cosine_similarity(sym, symptoms[n])
         IN  IF sim >= before[2] THEN <<Some(symptoms[n]), sim>> ELSE before

get_closest_symptom_with_bert_LastMax(sym, symptoms) ==
    closest_upto_LastMax(sym, symptoms, Len(symptoms))

get_closest_symptom_with_bert(sym, symptoms) ==
    closest_upto(sym, symptoms, Len(symptoms))

\* ------------------------------------------------------------------------
\* normalize_symptom, layer by layer

Init ==
    /\ all_symptoms \in Vocabularies
    /\ fuzzOf \in [Entries(all_symptoms) -> FuzzyScores]
    /\ semOf \in [LowerEntries(all_symptoms) -> CosineScores]
    /\ pc = "idle"
    /\ symptom = <<>>
    /\ s = <<>>
    /\ result = None
    /\ exc = "none"
    /\ consulted = <<>>
    /\ earlier = None
    /\ StoreAtRest

\* `return v`
Return(v) ==
    /\ pc' = "returned"
    /\ result' = v
    /\ exc' = "none"
    /\ UNCHANGED earlier

Raise(e) ==
    /\ pc' = "raised"
    /\ exc' = e
    /\ UNCHANGED <<result, earlier>>

Goto(layer) ==
    /\ pc' = layer
    /\ UNCHANGED <<result, exc, earlier>>

\* the call without lower(): s = symptom.strip()
Call_NoLower(raw) ==
    /\ pc \in {"idle", "returned", "raised"}
    /\ symptom' = raw
    /\ s' = strip(raw)
    /\ pc' = "alias"
    /\ result' = None
    /\ exc' = "none"
    /\ consulted' = <<>>
    /\ earlier' \in {earlier} \cup (IF pc = "returned" THEN {<<symptom, result>>} ELSE {})
    /\ UNCHANGED world

\* the call with s kept in a module-level variable that is set from the
\* argument of the call before
Call_StaleInput(raw) ==
    /\ pc \in {"idle", "returned", "raised"}
    /\ symptom' = raw
    /\ s' = strip(lower(symptom))
    /\ pc' = "alias"
    /\ result' = None
    /\ exc' = "none"
    /\ consulted' = <<>>
    /\ earlier' \in {earlier} \cup (IF pc = "returned" THEN {<<symptom, result>>} ELSE {})
    /\ UNCHANGED world

\* a caller calls normalize_symptom(raw, all_symptoms); s = symptom.lower().strip().
\* The caller may keep the call that just returned, as the test runner does
\* when it calls twice for each symptom.
Call(raw) ==
    /\ pc \in {"idle", "returned", "raised"}
    /\ symptom' = raw
    /\ s' = strip(lower(raw))
    /\ pc' = "alias"
    /\ result' = None
    /\ exc' = "none"
    /\ consulted' = <<>>
    /\ earlier' \in {earlier} \cup (IF pc = "returned" THEN {<<symptom, result>>} ELSE {})
    /\ UNCHANGED world

\* Layer 1 handing a miss to the fuzzy layer, past the exact layer
LayerAlias_SkipsExact ==
    /\ pc = "alias"
    /\ consulted' = Append(consulted, "alias")
    /\ IF s \in DOMAIN SYMPTOM_MAP
       THEN Return(Some(SYMPTOM_MAP[s]))
       ELSE Goto("fuzzy")
    /\ UNCHANGED <<world, symptom, s>>

\* Layer 1: Rule-based
LayerAlias ==
    /\ pc = "alias"
    /\ consulted' = Append(consulted, "alias")
    /\ IF s \in DOMAIN SYMPTOM_MAP
       THEN Return(Some(SYMPTOM_MAP[s]))
       ELSE Goto("exact")
    /\ UNCHANGED <<world, symptom, s>>

\* Layer 2: Exact match
LayerExact ==
    /\ pc = "exact"
    /\ consulted' = Append(consulted, "exact")
    /\ IF s \in LowerEntries(all_symptoms)
       THEN Return(Some(s))
       ELSE Goto("fuzzy")
    /\ UNCHANGED <<world, symptom, s>>

\* Layer 3: Fuzzy string match
LayerFuzzy ==
    /\ pc = "fuzzy"
    /\ consulted' = Append(consulted, "fuzzy")
    /\ LET fuzzy == fuzzy_match(s, all_symptoms, threshold)
       IN  IF fuzzy.exc # "none" THEN Raise(fuzzy.exc)
           ELSE IF Truthy(fuzzy.value) THEN Return(fuzzy.value)
           ELSE Goto("semantic")
    /\ UNCHANGED <<world, symptom, s>>

\* Layer 4 accepting a similarity equal to the cut
LayerSemantic_AtLeast ==
    /\ pc = "semantic"
    /\ consulted' = Append(consulted, "semantic")
    /\ LET closest == get_closest_symptom_with_bert(s, all_symptoms)
       IN  Return(IF closest[2] >= semantic_cut THEN closest[1] ELSE None)
    /\ UNCHANGED <<world, symptom, s>>

\* Layer 4: ClinicalBERT semantic match
LayerSemantic ==
    /\ pc = "semantic"
    /\ consulted' = Append(consulted, "semantic")
    /\ LET closest == get_closest_symptom_with_bert(s, all_symptoms)
       IN  Return(IF closest[2] > semantic_cut THEN closest[1] ELSE None)
    /\ UNCHANGED <<world, symptom, s>>

\* Layer 4 when get_clinicalbert_embedding raises: nothing catches it
LayerSemanticEmbeddingFails ==
    /\ pc = "semantic"
    /\ consulted' = Append(consulted, "semantic")
    /\ Raise("EmbeddingError")
    /\ UNCHANGED <<world, symptom, s>>

Next ==
    \/ \E raw \in RawInputs : Call(raw)
    \/ LayerAlias
    \/ LayerExact
    \/ LayerFuzzy
    \/ LayerSemantic
    \/ LayerSemanticEmbeddingFails

Spec == Init /\ [][Next]_vars

\* ------------------------------------------------------------------------
\* Scenario B: calls of normalize_symptom on the vocabulary fever, cough,
\* headache, with no cosine similarity above 0.4

Orderings(S) ==
    {list \in [1..Cardinality(S) -> S] :
        \A i, j \in 1..Cardinality(S) : list[i] = list[j] => i = j}

InitScenarioB ==
    /\ all_symptoms \in Orderings(ScenarioVocabulary)
    /\ fuzzOf \in [Entries(all_symptoms) -> FuzzyScores]
    /\ semOf \in [LowerEntries(all_symptoms) -> ScenarioCosines]
    /\ pc = "idle"
    /\ symptom = <<>>
    /\ s = <<>>
    /\ result = None
    /\ exc = "none"
    /\ consulted = <<>>
    /\ earlier = None
    /\ StoreAtRest

NextScenarioB ==
    \/ \E raw \in ScenarioInputs : Call(raw)
    \/ LayerAlias
    \/ LayerExact
    \/ LayerFuzzy
    \/ LayerSemantic
    \/ LayerSemanticEmbeddingFails

SpecScenarioB == InitScenarioB /\ [][NextScenarioB]_vars

\* ------------------------------------------------------------------------
\* The graph store and the two functions that query it

\* names of the Disease nodes
DiseaseNames == {"Flu", "Cold", "Asthma"}

\* names a Symptom node can have: two names, one of them in two casings
StoreSymptomNames ==
    { <<"f","e","v","e","r">>,
      <<"c","o","u","g","h">>,
      <<"C","o","u","g","h">> }

\* the symptom lists a caller passes to get_diseases_from_neo4j: empty, one
\* name, a name with case and blanks, a repeated name, two names in either
\* order, and a name no node has
QueryLists ==
    { <<>>,
      << <<"c","o","u","g","h">> >>,
      << <<" ","C","o","u","g","h">> >>,
      << <<"c","o","u","g","h">>, <<"c","o","u","g","h">> >>,
      << <<"f","e","v","e","r">>, <<"c","o","u","g","h">> >>,
      << <<"c","o","u","g","h">>, <<"f","e","v","e","r">> >>,
      << <<"h","t","n">> >> }

\* the values of top_n: the callers pass 5 (and 3); 1 and 2 cut a result
TopNs == {1, 2, 5}

\* the order of the characters in a comparison of strings
CodeOrder == <<"\t", "\n", "\r", " ", "/">> \o UpperChars \o LowerChars

CharCode(c) == CHOOSE i \in 1..Len(CodeOrder) : CodeOrder[i] = c

\* a < b for strings, as ORDER BY compares them
StrLess(a, b) ==
    \E k \in 1..(Len(b)) :
        /\ k <= Len(a) + 1
        /\ \A i \in 1..(k - 1) : a[i] = b[i]
        /\ \/ k = Len(a) + 1
           \/ CharCode(a[k]) < CharCode(b[k])

\* the rows of MATCH (s:Symptom) RETURN s.name as symptom ORDER BY s.name
SymptomRows ==
    CHOOSE list \in Orderings(symptom_nodes) :
        \A i, j \in 1..Len(list) : i < j => StrLess(list[i], list[j])

\* the list without lower(): [s.strip() for s in user_symptoms]
symptom_list_NoLower(user_symptoms) ==
    [i \in 1..Len(user_symptoms) |-> strip(user_symptoms[i])]

\* symptom_list=[s.lower().strip() for s in user_symptoms]
symptom_list(user_symptoms) ==
    [i \in 1..Len(user_symptoms) |-> strip(lower(user_symptoms[i]))]

\* the rows of the MATCH without its WHERE clause
MatchedRows_NoWhere(list) == has_symptom

\* the rows of MATCH (d:Disease)-[:HAS_SYMPTOM]->(s:Symptom)
\* WHERE toLower(s.name) IN $symptom_list
MatchedRows(list) == {e \in has_symptom : lower(e[2]) \in Entries(list)}

\* the diseases the rows are grouped by
MatchedDiseases(list) == {e[1] : e \in MatchedRows(list)}

\* collect(s.name) for a disease, in the order the store walks its rows
matched_symptoms(d, list) ==
    CHOOSE names \in Orderings({e[2] : e \in {x \in MatchedRows(list) : x[1] = d}}) : TRUE

\* count(*) for a disease
match_count(d, list) == Cardinality({e \in MatchedRows(list) : e[1] = d})

\* one record of the returned list
DiseaseRecord(d, list) ==
    [disease |-> d,
     matched_symptoms |-> matched_symptoms(d, list),
     match_count |-> match_count(d, list)]

Min(a, b) == IF a < b THEN a ELSE b

\* the query with ORDER BY match_count, which is ascending
QueryResults_Ascending(user_symptoms, n) ==
    LET list == symptom_list(user_symptoms)
        ordered == {o \in Orderings(MatchedDiseases(list)) :
                       \A i, j \in 1..Len(o) :
                           i < j => match_count(o[i], list) <= match_count(o[j], list)}
    IN  {[i \in 1..Min(n, Len(o)) |-> DiseaseRecord(o[i], list)] : o \in ordered}

\* the results the query can give: the groups ORDER BY match_count DESC, ties
\* in whatever order the store yields them, cut by LIMIT $top_n
QueryResults(user_symptoms, n) ==
    LET list == symptom_list(user_symptoms)
        ordered == {o \in Orderings(MatchedDiseases(list)) :
                       \A i, j \in 1..Len(o) :
                           i < j => match_count(o[i], list) >= match_count(o[j], list)}
    IN  {[i \in 1..Min(n, Len(o)) |-> DiseaseRecord(o[i], list)] : o \in ordered}

\* a caller calls get_diseases_from_neo4j(user_symptoms, top_n) or
\* get_all_symptoms_from_neo4j()
StartCall(r, fn, user_symptoms, n) ==
    /\ req[r].pc \in {"idle", "returned", "raised", "done"}
    /\ req' = [req EXCEPT ![r] = [pc |-> "session", fn |-> fn,
                                  user_symptoms |-> user_symptoms, top_n |-> n,
                                  result |-> <<>>, exc |-> "none",
                                  outage |-> FALSE, closed |-> FALSE,
                                  session_open |-> FALSE]]
    /\ UNCHANGED <<symptom_nodes, has_symptom, driver_closed>>

get_diseases_from_neo4j(r, user_symptoms, n) ==
    StartCall(r, "diseases", user_symptoms, n)

get_all_symptoms_from_neo4j(r) ==
    StartCall(r, "symptoms", <<>>, 0)

\* with driver.session() as session: the driver hands out a session and
\* connects only when the query runs
AcquireSession(r) ==
    /\ req[r].pc = "session"
    /\ req' = [req EXCEPT ![r].pc = "query", ![r].session_open = TRUE]
    /\ UNCHANGED <<symptom_nodes, has_symptom, driver_closed>>

\* driver.session() on a closed driver raises in the drivers that refuse a
\* closed driver; the call is outside the try and the exception leaves the
\* function
AcquireSessionRaises(r) ==
    /\ req[r].pc = "session"
    /\ driver_closed
    /\ req' = [req EXCEPT ![r].pc = "raised", ![r].exc = "DriverError",
                          ![r].closed = TRUE]
    /\ UNCHANGED <<symptom_nodes, has_symptom, driver_closed>>

\* the query that creates a Symptom node for each symptom of the list (MERGE
\* in place of MATCH)
RunQuery_Merges(r) ==
    /\ req[r].pc = "query"
    /\ ~driver_closed
    /\ \E rows \in IF req[r].fn = "diseases"
                   THEN QueryResults(req[r].user_symptoms, req[r].top_n)
                   ELSE {SymptomRows} :
           req' = [req EXCEPT ![r].pc = "returned", ![r].result = rows,
                                 ![r].session_open = FALSE]
    /\ symptom_nodes' = symptom_nodes \cup Entries(symptom_list(req[r].user_symptoms))
    /\ UNCHANGED <<has_symptom, driver_closed>>

\* session.run(...) and the reading of its rows succeed
RunQuery(r) ==
    /\ req[r].pc = "query"
    /\ ~driver_closed
    /\ \E rows \in IF req[r].fn = "diseases"
                   THEN QueryResults(req[r].user_symptoms, req[r].top_n)
                   ELSE {SymptomRows} :
           req' = [req EXCEPT ![r].pc = "returned", ![r].result = rows,
                                 ![r].session_open = FALSE]
    /\ UNCHANGED <<symptom_nodes, has_symptom, driver_closed>>

\* session.run(...) or the reading of its rows raises, because the driver is
\* closed or because the store cannot be reached: except Exception, return []
RunQueryFails(r) ==
    /\ req[r].pc = "query"
    /\ req' = [req EXCEPT ![r].pc = "returned", ![r].result = <<>>,
                          ![r].outage = ~driver_closed,
                          ![r].closed = driver_closed,
                          ![r].session_open = FALSE]
    /\ UNCHANGED <<symptom_nodes, has_symptom, driver_closed>>

\* close_driver(), which a caller runs when its request or session is over
close_driver(r) ==
    /\ req[r].pc \in {"returned", "raised"}
    /\ driver_closed' = TRUE
    /\ req' = [req EXCEPT ![r].pc = "done"]
    /\ UNCHANGED <<symptom_nodes, has_symptom>>

\* what the store functions do not touch
normalizerVars ==
    <<all_symptoms, fuzzOf, semOf, pc, symptom, s, result, exc, consulted, earlier>>

\* what the store functions leave alone
callerVars == <<normalizerVars, ses>>

\* the normalizer is not called
NormalizerAtRest ==
    /\ all_symptoms = <<>>
    /\ fuzzOf = <<>>
    /\ semOf = <<>>
    /\ pc = "idle"
    /\ symptom = <<>>
    /\ s = <<>>
    /\ result = None
    /\ exc = "none"
    /\ consulted = <<>>
    /\ earlier = None

\* a store of any content over the names, in which every Symptom node has an
\* edge (a node is created together with its first edge), and one driver,
\* not closed
InitStore ==
    /\ symptom_nodes \in SUBSET StoreSymptomNames
    /\ has_symptom \in SUBSET (DiseaseNames \X symptom_nodes)
    /\ \A name \in symptom_nodes : \E e \in has_symptom : e[2] = name
    /\ driver_closed = FALSE
    /\ req = [r \in Requests |-> IdleRequest]
    /\ ses = IdleSession
    /\ NormalizerAtRest

\* one caller, one call after the other
NextStore ==
    \/ (\E list \in QueryLists, n \in TopNs : get_diseases_from_neo4j(1, list, n))
            /\ UNCHANGED callerVars
    \/ get_all_symptoms_from_neo4j(1) /\ UNCHANGED callerVars
    \/ AcquireSession(1) /\ UNCHANGED callerVars
    \/ AcquireSessionRaises(1) /\ UNCHANGED callerVars
    \/ RunQuery(1) /\ UNCHANGED callerVars
    \/ RunQueryFails(1) /\ UNCHANGED callerVars
    \/ close_driver(1) /\ UNCHANGED callerVars

SpecStore == InitStore /\ [][NextStore]_vars

\* ------------------------------------------------------------------------
\* Two requests to /analyze-symptoms in one server process

\* the graph of the serving scenario: Flu has fever and cough, Cold has cough
ServingSymptoms == {<<"f","e","v","e","r">>, <<"c","o","u","g","h">>}

ServingEdges ==
    {<<"Flu", <<"f","e","v","e","r">>>>, <<"Flu", <<"c","o","u","g","h">>>>,
     <<"Cold", <<"c","o","u","g","h">>>>}

\* top_n=5 of the handler's call
analyze_top_n == 5

InitConcurrent ==
    /\ symptom_nodes = ServingSymptoms
    /\ has_symptom = ServingEdges
    /\ driver_closed = FALSE
    /\ req = [r \in Requests |-> IdleRequest]
    /\ ses = IdleSession
    /\ NormalizerAtRest

\* the handler, up to its call of get_diseases_from_neo4j(data.symptoms, top_n=5)
analyze_symptoms(r) ==
    /\ req[r].pc = "idle"
    /\ \E list \in QueryLists : get_diseases_from_neo4j(r, list, analyze_top_n)

\* the handler's success path: crew.kickoff() returned, close_driver(), return
analyze_symptoms_close(r) ==
    /\ req[r].pc = "returned"
    /\ close_driver(r)

\* except Exception: an exception of the call or of crew.kickoff() ends the
\* request with {"error": ...}; close_driver() is not reached
analyze_symptoms_except(r) ==
    /\ req[r].pc \in {"returned", "raised"}
    /\ req' = [req EXCEPT ![r].pc = "done"]
    /\ UNCHANGED <<symptom_nodes, has_symptom, driver_closed>>

NextConcurrent ==
    \/ (\E r \in Requests : analyze_symptoms(r)) /\ UNCHANGED callerVars
    \/ (\E r \in Requests : AcquireSession(r)) /\ UNCHANGED callerVars
    \/ (\E r \in Requests : AcquireSessionRaises(r)) /\ UNCHANGED callerVars
    \/ (\E r \in Requests : RunQuery(r)) /\ UNCHANGED callerVars
    \/ (\E r \in Requests : RunQueryFails(r)) /\ UNCHANGED callerVars
    \/ (\E r \in Requests : analyze_symptoms_close(r)) /\ UNCHANGED callerVars
    \/ (\E r \in Requests : analyze_symptoms_except(r)) /\ UNCHANGED callerVars

SpecConcurrent == InitConcurrent /\ [][NextConcurrent]_vars

\* ------------------------------------------------------------------------
\* Two calls of get_diseases_from_neo4j, one after the other, on one graph

\* the edges a graph of the two calls is made of; cough is a symptom of up to
\* three diseases
RepeatEdges == ServingEdges \cup {<<"Asthma", <<"c","o","u","g","h">>>>}

InitTwoCalls ==
    /\ has_symptom \in SUBSET RepeatEdges
    /\ symptom_nodes = {e[2] : e \in has_symptom}
    /\ driver_closed = FALSE
    /\ req = [r \in Requests |-> IdleRequest]
    /\ ses = IdleSession
    /\ NormalizerAtRest

\* the first call
FirstCall ==
    /\ req[1].pc = "idle"
    /\ \E list \in QueryLists, n \in TopNs : get_diseases_from_neo4j(1, list, n)

\* the second call, made when the first has returned
SecondCall ==
    /\ req[1].pc = "returned"
    /\ req[2].pc = "idle"
    /\ \E list \in QueryLists, n \in TopNs : get_diseases_from_neo4j(2, list, n)

NextTwoCalls ==
    \/ FirstCall /\ UNCHANGED callerVars
    \/ SecondCall /\ UNCHANGED callerVars
    \/ (\E r \in Requests : AcquireSession(r)) /\ UNCHANGED callerVars
    \/ (\E r \in Requests : RunQuery(r)) /\ UNCHANGED callerVars
    \/ (\E r \in Requests : RunQueryFails(r)) /\ UNCHANGED callerVars

SpecTwoCalls == InitTwoCalls /\ [][NextTwoCalls]_vars

\* ------------------------------------------------------------------------
\* A session: crew.py main, or the test runner

\* the graphs of the sessions: the serving graph, a graph whose one Symptom
\* name has a capital, an empty store
SessionGraphs == {ServingEdges, {<<"Flu", <<"C","o","u","g","h">>>>}, {}}

\* user_in.split(','): the pieces of the line the user types
InputPieces ==
    { << <<"h","t","n">> >>,
      << <<" ","C","O","G","H">> >>,
      << <<"C","O","G","H">>, <<"h","t","n">> >>,
      << <<"h","t","n">>, <<" ">>, <<"C","O","G","H">> >>,
      << <<"c","o","u","g","h">>, <<"c","o","u","g","h">> >>,
      << <<"x","y","z">>, <<"h","t","n">>, <<"C","O","G","H">> >>,
      << <<" ">> >> }

\* the symptom columns of one row of the test dataset
TestCaseSymptoms ==
    { <<>>,
      << <<"h","t","n">> >>,
      << <<"C","O","G","H">> >>,
      << <<"c","o","u","g","h">>, <<"C","O","G","H">> >> }

\* top_n of crew.py main's call and of the test runner's call
crew_top_n == 5

testrunner_top_n == 3

NonBlank(piece) == strip(piece) # <<>>

\* [s.strip() for s in user_in.split(',') if s.strip()]
StrippedTokens(pieces) ==
    LET kept == SelectSeq(pieces, NonBlank)
    IN  [k \in 1..Len(kept) |-> strip(kept[k])]

InitSession ==
    /\ has_symptom \in SessionGraphs
    /\ symptom_nodes = {e[2] : e \in has_symptom}
    /\ driver_closed = FALSE
    /\ req = [r \in Requests |-> IdleRequest]
    /\ ses = IdleSession
    /\ NormalizerAtRest

\* the session starts and calls get_all_symptoms_from_neo4j()
SessionStart(caller) ==
    /\ ses.pc = "idle"
    /\ get_all_symptoms_from_neo4j(1)
    /\ ses' = [IdleSession EXCEPT !.caller = caller, !.pc = "fetching",
                                  !.vocabulary_fetches = ses.vocabulary_fetches + 1]
    /\ UNCHANGED normalizerVars

\* crew.py main returning on the missing key without its finally
crew_no_api_key_SkipsFinally ==
    /\ ses.pc = "idle"
    /\ ses' = [IdleSession EXCEPT !.caller = "crew", !.pc = "done",
                                  !.exit = "no_api_key"]
    /\ UNCHANGED <<normalizerVars, symptom_nodes, has_symptom, driver_closed, req>>

\* crew.py main without OPENAI_API_KEY: the message, return, finally
crew_no_api_key ==
    /\ ses.pc = "idle"
    /\ ses' = [IdleSession EXCEPT !.caller = "crew", !.pc = "closing",
                                  !.exit = "no_api_key"]
    /\ UNCHANGED <<normalizerVars, symptom_nodes, has_symptom, driver_closed, req>>

\* the session that drops the vocabulary it fetched
BindVocabulary_Dropped(rows) ==
    /\ all_symptoms' = <<>>
    /\ fuzzOf' = <<>>
    /\ semOf' = <<>>
    /\ UNCHANGED <<pc, symptom, s, result, exc, consulted, earlier>>

\* the vocabulary is bound to all_symptoms; the scorers' values for its
\* entries are fixed from here on
BindVocabulary(rows) ==
    /\ all_symptoms' = rows
    /\ fuzzOf' \in [Entries(rows) -> FuzzyScores]
    /\ semOf' \in [LowerEntries(rows) -> CosineScores]
    /\ UNCHANGED <<pc, symptom, s, result, exc, consulted, earlier>>

\* crew.py main: all_symptoms = ...; if not all_symptoms: message, return
crew_fetched ==
    /\ ses.caller = "crew"
    /\ ses.pc = "fetching"
    /\ req[1].pc = "returned"
    /\ BindVocabulary(req[1].result)
    /\ ses' = [ses EXCEPT !.fetch_failed = req[1].outage,
                          !.fetched = <<req[1].result>>,
                          !.pc = IF req[1].result = <<>> THEN "closing" ELSE "input",
                          !.exit = IF req[1].result = <<>> THEN "no_vocabulary"
                                   ELSE "none"]
    /\ UNCHANGED <<symptom_nodes, has_symptom, driver_closed, req>>

\* crew.py main: input(), the empty-input return, the token list
crew_input ==
    /\ ses.caller = "crew"
    /\ ses.pc = "input"
    /\ \E pieces \in InputPieces :
           LET user_symptoms == StrippedTokens(pieces)
           IN  ses' = [ses EXCEPT !.user_symptoms = user_symptoms, !.i = 1,
                                  !.pc = IF user_symptoms = <<>> THEN "closing"
                                         ELSE "loop",
                                  !.exit = IF user_symptoms = <<>> THEN "empty_input"
                                           ELSE "none"]
    /\ UNCHANGED <<normalizerVars, symptom_nodes, has_symptom, driver_closed, req>>

\* crew.py main: Ctrl-C while the session waits at input(): except
\* KeyboardInterrupt prints and goes to finally
crew_keyboard_interrupt ==
    /\ ses.caller = "crew"
    /\ ses.pc = "input"
    /\ ses' = [ses EXCEPT !.pc = "closing", !.exit = "interrupt"]
    /\ UNCHANGED <<normalizerVars, symptom_nodes, has_symptom, driver_closed, req>>

\* the test runner: all_symptoms = ..., with no test of it; one test case
testrunner_fetched ==
    /\ ses.caller = "testrunner"
    /\ ses.pc = "fetching"
    /\ req[1].pc = "returned"
    /\ BindVocabulary(req[1].result)
    /\ \E symptoms \in TestCaseSymptoms :
           ses' = [ses EXCEPT !.fetch_failed = req[1].outage,
                              !.fetched = <<req[1].result>>,
                              !.user_symptoms = symptoms, !.i = 1, !.pc = "loop"]
    /\ UNCHANGED <<symptom_nodes, has_symptom, driver_closed, req>>

\* normalize_symptom(symptom, all_symptoms) for the current token
SessionNormalize ==
    /\ ses.pc = "loop"
    /\ ses.i <= Len(ses.user_symptoms)
    /\ pc = "idle"
    /\ Call(ses.user_symptoms[ses.i])

\* the call of the session has returned: its result is recorded and the
\* normalizer is ready for the next call
Consume(valid, invalid, i, phase) ==
    /\ pc' = "idle"
    /\ ses' = [ses EXCEPT !.valid_symptoms = valid, !.invalid_symptoms = invalid,
                          !.i = i, !.phase = phase,
                          !.normalize_calls = ses.normalize_calls + 1,
                          !.outcomes = IF ses.phase = "filter"
                                       THEN Append(ses.outcomes, result)
                                       ELSE ses.outcomes]
    /\ UNCHANGED <<all_symptoms, fuzzOf, semOf, symptom, s, result, exc, consulted,
                   earlier, symptom_nodes, has_symptom, driver_closed, req>>

\* the loop body that leaves an unrecognized token in valid_symptoms
crew_loop_body_KeepsUnrecognized ==
    /\ ses.caller = "crew"
    /\ ses.pc = "loop"
    /\ pc = "returned"
    /\ Consume(Append(ses.valid_symptoms,
                      IF Truthy(result) THEN result[1] ELSE ses.user_symptoms[ses.i]),
               ses.invalid_symptoms, ses.i + 1, "filter")

\* the loop body that puts each unrecognized token in front of the others
crew_loop_body_Prepends ==
    /\ ses.caller = "crew"
    /\ ses.pc = "loop"
    /\ pc = "returned"
    /\ IF Truthy(result)
       THEN Consume(Append(ses.valid_symptoms, result[1]), ses.invalid_symptoms,
                    ses.i + 1, "filter")
       ELSE Consume(ses.valid_symptoms,
                    <<ses.user_symptoms[ses.i]>> \o ses.invalid_symptoms,
                    ses.i + 1, "filter")

\* crew.py main: if normalized: valid_symptoms.append(normalized)
\*               else: invalid_symptoms.append(symptom)
crew_loop_body ==
    /\ ses.caller = "crew"
    /\ ses.pc = "loop"
    /\ pc = "returned"
    /\ IF Truthy(result)
       THEN Consume(Append(ses.valid_symptoms, result[1]), ses.invalid_symptoms,
                    ses.i + 1, "filter")
       ELSE Consume(ses.valid_symptoms,
                    Append(ses.invalid_symptoms, ses.user_symptoms[ses.i]),
                    ses.i + 1, "filter")

\* the test runner's comprehension: the call in the `if` filters, a second
\* call of normalize_symptom gives the element
testrunner_loop_body ==
    /\ ses.caller = "testrunner"
    /\ ses.pc = "loop"
    /\ pc = "returned"
    /\ IF ses.phase = "filter"
       THEN IF Truthy(result)
            THEN Consume(ses.valid_symptoms, ses.invalid_symptoms, ses.i, "value")
            ELSE Consume(ses.valid_symptoms, ses.invalid_symptoms, ses.i + 1, "filter")
       ELSE Consume(Append(ses.valid_symptoms, IF result = None THEN None ELSE result[1]),
                    ses.invalid_symptoms, ses.i + 1, "filter")

\* normalize_symptom raised: crew.py main's except Exception prints it and
\* goes to finally; nothing catches it in the test runner, which ends there
SessionNormalizeRaised ==
    /\ ses.pc = "loop"
    /\ pc = "raised"
    /\ pc' = "idle"
    /\ ses' = [ses EXCEPT !.raised = TRUE,
                          !.normalize_calls = ses.normalize_calls + 1,
                          !.pc = IF ses.caller = "crew" THEN "closing" ELSE "crashed",
                          !.exit = "exception"]
    /\ UNCHANGED <<all_symptoms, fuzzOf, semOf, symptom, s, result, exc, consulted,
                   earlier, symptom_nodes, has_symptom, driver_closed, req>>

\* crew.py main after the loop: with no valid symptom the message and return
crew_no_valid_symptoms ==
    /\ ses.caller = "crew"
    /\ ses.pc = "loop"
    /\ ses.i > Len(ses.user_symptoms)
    /\ pc = "idle"
    /\ ses.valid_symptoms = <<>>
    /\ ses' = [ses EXCEPT !.pc = "closing", !.exit = "no_valid_symptom"]
    /\ UNCHANGED <<normalizerVars, symptom_nodes, has_symptom, driver_closed, req>>

\* the session that goes to the matcher whatever valid_symptoms holds
SessionMatch_AlsoEmpty ==
    /\ ses.pc = "loop"
    /\ ses.i > Len(ses.user_symptoms)
    /\ pc = "idle"
    /\ get_diseases_from_neo4j(1, ses.valid_symptoms,
                               IF ses.caller = "crew" THEN crew_top_n
                               ELSE testrunner_top_n)
    /\ ses' = [ses EXCEPT !.pc = "matching",
                          !.matcher_calls = Append(ses.matcher_calls, ses.valid_symptoms)]
    /\ UNCHANGED normalizerVars

\* get_diseases_from_neo4j(valid_symptoms, top_n=5) in crew.py main,
\* get_diseases_from_neo4j(normalized, top_n=3) in the test runner
SessionMatch ==
    /\ ses.pc = "loop"
    /\ ses.i > Len(ses.user_symptoms)
    /\ pc = "idle"
    /\ ses.caller = "crew" => ses.valid_symptoms # <<>>
    /\ get_diseases_from_neo4j(1, ses.valid_symptoms,
                               IF ses.caller = "crew" THEN crew_top_n
                               ELSE testrunner_top_n)
    /\ ses' = [ses EXCEPT !.pc = "matching",
                          !.matcher_calls = Append(ses.matcher_calls, ses.valid_symptoms)]
    /\ UNCHANGED normalizerVars

\* create_diagnosis_task(agent, user_symptoms, matched_diseases): the task's
\* description names the symptoms and either says that nothing matched or
\* lists the diseases
create_diagnosis_task(user_symptoms, matched_diseases) ==
    [user_symptoms |-> user_symptoms,
     description |-> IF matched_diseases = <<>> THEN "no_close_matches"
                     ELSE "top_matches",
     matched_diseases |-> matched_diseases]

\* the session for which a failed match query is the end: no task is built
SessionMatched_FailureIsFatal ==
    /\ ses.pc = "matching"
    /\ req[1].pc = "returned"
    /\ ses' = [ses EXCEPT !.pc = IF ses.caller = "crew" THEN "closing" ELSE "done",
                          !.raised = req[1].outage,
                          !.task = IF ses.caller = "crew" /\ ~req[1].outage
                                   THEN <<create_diagnosis_task(ses.valid_symptoms,
                                                                req[1].result)>>
                                   ELSE <<>>]
    /\ UNCHANGED <<normalizerVars, symptom_nodes, has_symptom, driver_closed, req>>

\* the diseases are back: crew.py main prints them, builds the task, runs the
\* crew and goes to finally; the test runner scores the case and ends
SessionMatched ==
    /\ ses.pc = "matching"
    /\ req[1].pc = "returned"
    /\ ses' = [ses EXCEPT !.pc = IF ses.caller = "crew" THEN "closing" ELSE "done",
                          !.exit = "completed",
                          !.task = IF ses.caller = "crew"
                                   THEN <<create_diagnosis_task(ses.valid_symptoms,
                                                                req[1].result)>>
                                   ELSE <<>>]
    /\ UNCHANGED <<normalizerVars, symptom_nodes, has_symptom, driver_closed, req>>

\* crew.py main: finally: close_driver()
crew_finally ==
    /\ ses.caller = "crew"
    /\ ses.pc = "closing"
    /\ driver_closed' = TRUE
    /\ ses' = [ses EXCEPT !.pc = "done"]
    /\ UNCHANGED <<normalizerVars, symptom_nodes, has_symptom, req>>

NextSession ==
    \/ SessionStart("crew")
    \/ SessionStart("testrunner")
    \/ crew_no_api_key
    \/ AcquireSession(1) /\ UNCHANGED callerVars
    \/ RunQuery(1) /\ UNCHANGED callerVars
    \/ RunQueryFails(1) /\ UNCHANGED callerVars
    \/ crew_fetched
    \/ crew_input
    \/ crew_keyboard_interrupt
    \/ testrunner_fetched
    \/ SessionNormalize
    \/ LayerAlias
    \/ LayerExact
    \/ LayerFuzzy
    \/ LayerSemantic
    \/ LayerSemanticEmbeddingFails
    \/ crew_loop_body
    \/ testrunner_loop_body
    \/ SessionNormalizeRaised
    \/ crew_no_valid_symptoms
    \/ SessionMatch
    \/ SessionMatched
    \/ crew_finally

SpecSession == InitSession /\ [][NextSession]_vars

\* ------------------------------------------------------------------------
\* Vocabulary of the properties

\* the call has ended, by return or by exception
Ended == pc \in {"returned", "raised"}

\* the lower-cased, trimmed form of the current input
Key == strip(lower(symptom))

IsAliasKey == Key \in DOMAIN SYMPTOM_MAP

AliasValues == {SYMPTOM_MAP[k] : k \in DOMAIN SYMPTOM_MAP}

\* the current input equals the entry at position i but for letter case
EqualsEntry(i) == lower(all_symptoms[i]) = lower(symptom)

Positions == 1..Len(all_symptoms)

\* the vocabulary entries whose fuzzy score against the key exceeds 80
FuzzyAbove == {e \in Entries(all_symptoms) : WRatio(Key, e) > 80}

\* the highest cosine similarity of the key to a vocabulary entry
MaxCosine ==
    CHOOSE m \in {cosine_similarity(Key, all_symptoms[i]) : i \in Positions} :
        \A i \in Positions : cosine_similarity(Key, all_symptoms[i]) <= m

\* the first position that has the highest cosine similarity
FirstMaxCosine ==
    CHOOSE i \in Positions :
        /\ cosine_similarity(Key, all_symptoms[i]) = MaxCosine
        /\ \A j \in 1..(i - 1) : cosine_similarity(Key, all_symptoms[j]) < MaxCosine

\* the highest fuzzy score of the key against a vocabulary entry
MaxFuzzy ==
    CHOOSE m \in {WRatio(Key, all_symptoms[i]) : i \in Positions} :
        \A i \in Positions : WRatio(Key, all_symptoms[i]) <= m

\* the first position that has the highest fuzzy score
FirstMaxFuzzy ==
    CHOOSE i \in Positions :
        /\ WRatio(Key, all_symptoms[i]) = MaxFuzzy
        /\ \A j \in 1..(i - 1) : WRatio(Key, all_symptoms[j]) < MaxFuzzy

LayerOrder == <<"alias", "exact", "fuzzy", "semantic">>

\* the layer resolves the key: it has an answer to return
Succeeds(layer) ==
    CASE layer = "alias" -> Key \in DOMAIN SYMPTOM_MAP
      [] layer = "exact" -> Key \in LowerEntries(all_symptoms)
      [] layer = "fuzzy" -> /\ all_symptoms # <<>>
                            /\ MaxFuzzy > 80
      [] layer = "semantic" -> /\ all_symptoms # <<>>
                               /\ MaxCosine > 85

\* the answer of a layer that resolves the key
Answer(layer) ==
    CASE layer = "alias" -> Some(SYMPTOM_MAP[Key])
      [] layer = "exact" -> Some(Key)
      [] layer = "fuzzy" -> Some(all_symptoms[FirstMaxFuzzy])
      [] layer = "semantic" -> Some(all_symptoms[FirstMaxCosine])

\* ------------------------------------------------------------------------
\* C1: an input whose lower-cased, trimmed form is a key of SYMPTOM_MAP is
\* resolved by the alias layer alone: the call returns the mapped canonical
\* value, whatever the vocabulary holds.
C1_AliasHitReturnsMapped ==
    (IsAliasKey /\ pc \notin {"idle", "alias"})
        => /\ pc = "returned"
           /\ result = Some(SYMPTOM_MAP[Key])

\* C1 witness: " HTN" returned "hypertension" from a vocabulary that lacks
\* "hypertension" and holds "htn" itself.
C1_Witness ==
    /\ pc = "returned"
    /\ symptom = <<" ","H","T","N">>
    /\ result = Some(<<"h","y","p","e","r","t","e","n","s","i","o","n">>)
    /\ <<"h","y","p","e","r","t","e","n","s","i","o","n">> \notin Entries(all_symptoms)
    /\ <<"h","t","n">> \in Entries(all_symptoms)

\* C2 (as claimed): an input that is no alias key and equals a vocabulary
\* entry but for letter case gets that entry back, in the entry's casing.
C2_ExactReturnsEntry ==
    (pc = "returned" /\ ~IsAliasKey /\ \E i \in Positions : EqualsEntry(i))
        => \E i \in Positions : EqualsEntry(i) /\ result = Some(all_symptoms[i])

\* C3: the layers run in the order alias, exact, fuzzy, semantic; a layer runs
\* only when no earlier layer resolved the input; and a returned result is the
\* answer of the layer that ran last, which is the first layer that resolves
\* the input (None when the last layer is reached and does not resolve it).
C3_LayerPrecedence ==
    /\ Len(consulted) <= Len(LayerOrder)
    /\ consulted = SubSeq(LayerOrder, 1, Len(consulted))
    /\ \A k \in 1..Len(consulted) : \A j \in 1..(k - 1) : ~Succeeds(LayerOrder[j])
    /\ pc = "returned" =>
          /\ consulted # <<>>
          /\ LET last == LayerOrder[Len(consulted)]
             IN  IF Succeeds(last) THEN result = Answer(last)
                 ELSE last = "semantic" /\ result = None

\* C3 witness: the exact layer answered "cough" although the fuzzy layer would
\* have answered "Cough" and the semantic layer "Cough" too.
C3_Witness ==
    /\ pc = "returned"
    /\ consulted = <<"alias", "exact">>
    /\ result = Some(<<"c","o","u","g","h">>)
    /\ Succeeds("fuzzy") /\ Answer("fuzzy") # result
    /\ Succeeds("semantic") /\ Answer("semantic") # result

\* C4: with no alias hit and no exact match, (a) when exactly one vocabulary
\* entry scores above 80 the call returns that entry, and (b) when the best
\* score is exactly 80 the fuzzy layer does not answer and the semantic layer
\* runs.
C4_FuzzyThreshold ==
    (Ended /\ ~IsAliasKey /\ Key \notin LowerEntries(all_symptoms))
        => /\ Cardinality(FuzzyAbove) = 1
                => pc = "returned" /\ \E e \in FuzzyAbove : result = Some(e)
           /\ (/\ FuzzyAbove = {}
               /\ \E e \in Entries(all_symptoms) : WRatio(Key, e) = 80)
                => consulted = LayerOrder

\* C4 witness (a): one of two entries scores 81, the other 80, and is returned.
C4_Witness ==
    /\ pc = "returned"
    /\ ~IsAliasKey /\ Key \notin LowerEntries(all_symptoms)
    /\ Cardinality(FuzzyAbove) = 1
    /\ \E e \in Entries(all_symptoms) : WRatio(Key, e) = 80
    /\ \E e \in FuzzyAbove : result = Some(e)

\* the premise of C5: no entry scores above 80, none has cosine above 0.85
C5_Premise ==
    /\ \A e \in Entries(all_symptoms) : WRatio(Key, e) <= 80
    /\ \A e \in Entries(all_symptoms) : cosine_similarity(Key, e) <= 85

\* C5 (as claimed): an input with fuzzy score at most 80 and cosine at most
\* 0.85 to every vocabulary entry is returned as None (stated for the
\* vocabularies that have an entry, where the premise is about a score).
C5_LowScoresReturnNone ==
    (pc = "returned" /\ all_symptoms # <<>> /\ C5_Premise) => result = None

\* C5 (amended): an input that is no alias key, with fuzzy score at most 80
\* and cosine at most 0.85 to every vocabulary entry, is never resolved: every
\* value the call returns for it is None.
C5_LowScoresNoAliasReturnNone ==
    (pc = "returned" /\ ~IsAliasKey /\ C5_Premise) => result = None

\* C5 witness: all four layers ran on a non-empty vocabulary with a best fuzzy
\* score of 80 and a best cosine of 0.85, and the call returned None.
C5_Witness ==
    /\ pc = "returned"
    /\ ~IsAliasKey /\ C5_Premise
    /\ \E e \in Entries(all_symptoms) : WRatio(Key, e) = 80
    /\ all_symptoms # <<>> /\ MaxCosine = 85
    /\ consulted = LayerOrder
    /\ result = None

\* C6: a call that returns after the alias, exact and fuzzy layers have not
\* resolved the input returns the first vocabulary entry of maximum cosine
\* similarity when that maximum is above 0.85, and None otherwise.
C6_SemanticArgmax ==
    (/\ pc = "returned"
     /\ ~Succeeds("alias") /\ ~Succeeds("exact") /\ ~Succeeds("fuzzy"))
        => /\ all_symptoms # <<>>
           /\ result = IF MaxCosine > 85 THEN Some(all_symptoms[FirstMaxCosine])
                       ELSE None

\* C6 witness: two different entries share the maximum 0.86 and the first one
\* in vocabulary order is returned.
C6_Witness ==
    /\ pc = "returned"
    /\ consulted = LayerOrder
    /\ Len(all_symptoms) = 2
    /\ lower(all_symptoms[1]) # lower(all_symptoms[2])
    /\ cosine_similarity(Key, all_symptoms[1]) = 86
    /\ cosine_similarity(Key, all_symptoms[2]) = 86
    /\ result = Some(all_symptoms[1])

\* C7 (as claimed): with an empty vocabulary a call on an input that is no
\* alias key ends normally and returns None.
C7_EmptyVocabularyReturnsNone ==
    (Ended /\ all_symptoms = <<>> /\ ~IsAliasKey)
        => pc = "returned" /\ result = None

\* C8 (as claimed): a failure of the embedding call does not leave
\* normalize_symptom: the call returns None for the token.
C8_EmbeddingFailureAbsorbed ==
    ~(pc = "raised" /\ exc = "EmbeddingError")

\* C9 (as claimed): every returned value is None, a value of the alias table,
\* or a string that is an element of the vocabulary.
C9_ResultIsCanonical ==
    pc = "returned"
        => \/ result = None
           \/ result[1] \in AliasValues
           \/ result[1] \in Entries(all_symptoms)

ScenarioB ==
    /\ Entries(all_symptoms) = ScenarioVocabulary
    /\ FuzzyAbove = {}
    /\ MaxCosine = 40

\* C11 (as claimed): in Scenario B the call on "sorethroat" returns None.
C11_ScenarioBReturnsNone ==
    (pc = "returned" /\ symptom = <<"s","o","r","e","t","h","r","o","a","t">> /\ ScenarioB)
        => result = None

\* C11 (amended): in Scenario B the call on "sorethroat" returns "sore throat",
\* the value SYMPTOM_MAP holds for it, although no vocabulary entry is close.
C11_ScenarioBReturnsAlias ==
    (pc = "returned" /\ symptom = <<"s","o","r","e","t","h","r","o","a","t">> /\ ScenarioB)
        => result = Some(<<"s","o","r","e"," ","t","h","r","o","a","t">>)

\* C11 witness: "sorethroat" was returned as "sore throat" in Scenario B.
C11_Witness ==
    /\ pc = "returned"
    /\ symptom = <<"s","o","r","e","t","h","r","o","a","t">>
    /\ ScenarioB
    /\ consulted = <<"alias">>
    /\ result = Some(<<"s","o","r","e"," ","t","h","r","o","a","t">>)

\* ------------------------------------------------------------------------
\* Properties of the store functions

\* caller r has a result of get_diseases_from_neo4j in hand
ReturnedDiseases(r) == req[r].pc = "returned" /\ req[r].fn = "diseases"

\* the lower-cased, trimmed symptoms of caller r's list
QuerySymptoms(r) ==
    {strip(lower(req[r].user_symptoms[i])) : i \in 1..Len(req[r].user_symptoms)}

\* the query symptoms that disease d is connected to by a HAS_SYMPTOM edge
ConnectedQuerySymptoms(r, d) ==
    {q \in QuerySymptoms(r) : \E e \in has_symptom : e[1] = d /\ lower(e[2]) = q}

\* C12: a result of get_diseases_from_neo4j has at most top_n entries, in
\* non-increasing order of match_count.
C12_AtMostTopNSorted ==
    ReturnedDiseases(1)
        => /\ Len(req[1].result) <= req[1].top_n
           /\ \A i, j \in 1..Len(req[1].result) :
                  i < j => req[1].result[i].match_count >= req[1].result[j].match_count

\* C12 witness: three diseases match, top_n = 2 cuts the result, and the
\* entry with 2 matches precedes the entry with 1.
C12_Witness ==
    /\ ReturnedDiseases(1)
    /\ req[1].top_n = 2
    /\ Len(req[1].result) = 2
    /\ Cardinality({e[1] : e \in {x \in has_symptom : lower(x[2]) \in QuerySymptoms(1)}}) = 3
    /\ req[1].result[1].match_count = 2
    /\ req[1].result[2].match_count = 1

\* C13 (as claimed): in every returned entry match_count is the number of
\* distinct query symptoms the disease is connected to, and the length of
\* matched_symptoms.
C13_MatchCountIsDistinctQuerySymptoms ==
    ReturnedDiseases(1)
        => \A i \in 1..Len(req[1].result) :
              LET rec == req[1].result[i]
              IN  /\ rec.match_count
                        = Cardinality(ConnectedQuerySymptoms(1, rec.disease))
                  /\ rec.match_count = Len(rec.matched_symptoms)

\* C14 (as claimed): a call with an empty symptom list ends by returning the
\* empty list; it does not raise.
C14_EmptyListReturnsEmpty ==
    (req[1].fn = "diseases" /\ req[1].user_symptoms = <<>>
        /\ req[1].pc \in {"returned", "raised"})
        => req[1].pc = "returned" /\ req[1].result = <<>>

\* C15 (as claimed): a call of get_diseases_from_neo4j that meets a failure
\* of the store or of the connection, in any of its steps, returns [] and
\* raises nothing.
C15_FailureReturnsEmpty ==
    (req[1].fn = "diseases" /\ req[1].pc \in {"returned", "raised"}
        /\ (req[1].outage \/ req[1].closed))
        => req[1].pc = "returned" /\ req[1].result = <<>>

\* the results a call of caller r has on the store as it is, by itself
ResultsAlone(r) ==
    IF req[r].fn = "diseases"
    THEN QueryResults(req[r].user_symptoms, req[r].top_n)
    ELSE {SymptomRows}

\* C16 (as claimed): while the store can be reached, a call ends with a
\* result that depends on the store content and its arguments only, whatever
\* calls (close_driver among them) came before.
C16_ResultIndependentOfHistory ==
    (req[1].pc \in {"returned", "raised"} /\ ~req[1].outage)
        => req[1].pc = "returned" /\ req[1].result \in ResultsAlone(1)

\* C17 (as claimed): with two requests interleaved, each request's call ends
\* with the result it would have running alone, unless the store itself is
\* out of reach; the other request's close_driver does not make it fail or
\* come back empty.
C17_ConcurrentRequestsIsolated ==
    \A r \in Requests :
        (req[r].pc \in {"returned", "raised"} /\ ~req[r].outage)
            => req[r].pc = "returned" /\ req[r].result \in ResultsAlone(r)

\* ------------------------------------------------------------------------
\* Properties of a session

\* the positions of the tokens normalize_symptom has answered so far
Answered == 1..Len(ses.outcomes)

\* the tokens answered with a value the loop takes as recognized
Recognized == {k \in Answered : Truthy(ses.outcomes[k])}

\* the session is past its loop without an exception
PastLoop == ses.pc \in {"matching", "closing", "done"} /\ ~ses.raised

\* C18: in crew.py main a token that normalize_symptom answers with None is in
\* invalid_symptoms in its raw form, the list passed to
\* get_diseases_from_neo4j holds the values of the recognized tokens and
\* nothing else, the loop goes on to the remaining tokens, and the session
\* raises only when a call of normalize_symptom itself raised.
C18_UnrecognizedTokenDropped ==
    ses.caller = "crew"
        => /\ \A k \in Answered :
                  ses.outcomes[k] = None
                      => \E j \in 1..Len(ses.invalid_symptoms) :
                             ses.invalid_symptoms[j] = ses.user_symptoms[k]
           /\ \A c \in 1..Len(ses.matcher_calls) :
                  LET passed == ses.matcher_calls[c]
                  IN  /\ Len(passed) = Cardinality(Recognized)
                      /\ \A j \in 1..Len(passed) :
                             \E k \in Recognized : passed[j] = ses.outcomes[k][1]
           /\ (PastLoop /\ ses.user_symptoms # <<>>)
                  => Len(ses.outcomes) = Len(ses.user_symptoms)
           /\ ses.raised => exc # "none"

\* C18 witness: a finished session in which the first token was answered with
\* None and reported, and the matcher was called with the second token's
\* value alone.
C18_Witness ==
    /\ ses.caller = "crew"
    /\ ses.pc = "done"
    /\ ~ses.raised
    /\ Len(ses.outcomes) = 2
    /\ ses.outcomes[1] = None
    /\ ses.invalid_symptoms = <<ses.user_symptoms[1]>>
    /\ ses.matcher_calls = << <<ses.outcomes[2][1]>> >>

\* the values of the recognized tokens among the first n, in input order
RECURSIVE ValidUpTo(_)
ValidUpTo(n) ==
    IF n = 0 THEN <<>>
    ELSE IF Truthy(ses.outcomes[n])
         THEN Append(ValidUpTo(n - 1), ses.outcomes[n][1])
         ELSE ValidUpTo(n - 1)

\* the raw forms of the other tokens among the first n, in input order
RECURSIVE InvalidUpTo(_)
InvalidUpTo(n) ==
    IF n = 0 THEN <<>>
    ELSE IF Truthy(ses.outcomes[n])
         THEN InvalidUpTo(n - 1)
         ELSE Append(InvalidUpTo(n - 1), ses.user_symptoms[n])

\* C19: in crew.py main every token the loop has handled is in exactly one of
\* the two lists, its normalized form in valid_symptoms or its raw form in
\* invalid_symptoms, in input order; after the loop the two lists have
\* together as many elements as there are tokens.
C19_TokensPartitioned ==
    ses.caller = "crew"
        => /\ ses.valid_symptoms = ValidUpTo(Len(ses.outcomes))
           /\ ses.invalid_symptoms = InvalidUpTo(Len(ses.outcomes))
           /\ Len(ses.valid_symptoms) + Len(ses.invalid_symptoms) = Len(ses.outcomes)
           /\ PastLoop
                  => Len(ses.valid_symptoms) + Len(ses.invalid_symptoms)
                         = Len(ses.user_symptoms)

\* C19 witness: the loop is over with three tokens, one list has two of them
\* and the other has one.
C19_Witness ==
    /\ ses.caller = "crew"
    /\ PastLoop
    /\ Len(ses.user_symptoms) = 3
    /\ Len(ses.valid_symptoms) = 1
    /\ Len(ses.invalid_symptoms) = 2
    /\ ses.invalid_symptoms[1] # ses.invalid_symptoms[2]

\* C20 (as claimed): in a session whose vocabulary fetch failed, no call of
\* normalize_symptom and no call of get_diseases_from_neo4j is made, in
\* crew.py main and in the test runner.
C20_FailedFetchAborts ==
    ses.fetch_failed
        => /\ ses.normalize_calls = 0
           /\ pc = "idle"
           /\ ses.matcher_calls = <<>>

\* C21: a session fetches the vocabulary at most once; a call of
\* normalize_symptom comes only after that one fetch, and the vocabulary it
\* receives is the list the fetch returned.
C21_VocabularyFetchedOnce ==
    /\ ses.vocabulary_fetches <= 1
    /\ (pc # "idle" \/ ses.normalize_calls > 0)
           => /\ ses.vocabulary_fetches = 1
              /\ ses.fetched # <<>>
              /\ all_symptoms = ses.fetched[1]

\* C21 witness: the second call of normalize_symptom of a crew.py session is
\* running on the two-entry vocabulary of the one fetch.
C21_Witness ==
    /\ ses.caller = "crew"
    /\ ses.normalize_calls = 1
    /\ pc \notin {"idle", "alias"}
    /\ ses.vocabulary_fetches = 1
    /\ Len(all_symptoms) = 2
    /\ ses.fetched = <<all_symptoms>>

\* the crew.py session is past its call of get_diseases_from_neo4j
CrewPastMatch ==
    ses.caller = "crew" /\ ses.pc \in {"closing", "done"} /\ ses.matcher_calls # <<>>

\* C22: when the disease-match query of a crew.py session fails, the call
\* returns [], no exception ends the session, and the diagnosis task is built
\* from the resolved symptoms with an empty disease list, the same task as
\* when no disease matched.
C22_MatchFailureNotFatal ==
    /\ (ses.caller = "crew" /\ ses.pc = "matching" /\ req[1].pc = "returned"
            /\ req[1].outage)
           => req[1].result = <<>>
    /\ CrewPastMatch
           => /\ ~ses.raised
              /\ ses.task = <<create_diagnosis_task(ses.valid_symptoms, req[1].result)>>
              /\ req[1].result = <<>> => ses.task[1].description = "no_close_matches"
              /\ req[1].outage => req[1].result = <<>>

\* C22 witness: a crew.py session has ended after a failed match query, with
\* the task of the no-match case built from its resolved symptoms.
C22_Witness ==
    /\ CrewPastMatch
    /\ ses.pc = "done"
    /\ req[1].outage
    /\ ses.valid_symptoms # <<>>
    /\ ses.task # <<>>
    /\ ses.task[1].description = "no_close_matches"
    /\ ses.task[1].user_symptoms = ses.valid_symptoms

\* both calls have returned rows of the store
BothAnswered ==
    \A r \in Requests :
        /\ req[r].pc = "returned"
        /\ req[r].fn = "diseases"
        /\ ~req[r].outage
        /\ ~req[r].closed

\* the diseases of caller r's result, in order
DiseasesOf(r) == [i \in 1..Len(req[r].result) |-> req[r].result[i].disease]

\* C23 (as claimed): on one graph, two calls with the same symptom list and
\* the same top_n return the same diseases in the same order, ties included.
C23_SameCallSameDiseases ==
    (BothAnswered /\ req[1].user_symptoms = req[2].user_symptoms
        /\ req[1].top_n = req[2].top_n)
        => DiseasesOf(1) = DiseasesOf(2)

\* the diseases of caller r's result, each with its match_count
CountsOf(r) ==
    {<<req[r].result[i].disease, req[r].result[i].match_count>> :
        i \in 1..Len(req[r].result)}

\* C27 (as claimed): two calls whose lists have the same set of lower-cased,
\* trimmed symptoms, with the same top_n, return the same diseases with the
\* same match_count values, whatever the repetitions, order, letter case and
\* surrounding whitespace of the lists.
C27_ResultDependsOnKeySetOnly ==
    (BothAnswered /\ QuerySymptoms(1) = QuerySymptoms(2)
        /\ req[1].top_n = req[2].top_n)
        => CountsOf(1) = CountsOf(2)

\* C24: no step of get_diseases_from_neo4j, get_all_symptoms_from_neo4j or
\* close_driver, in a call that succeeds or in one that fails, changes the
\* Symptom nodes or the HAS_SYMPTOM edges (and with them the diseases) of the
\* store.
C24_StoreUnchanged == [][UNCHANGED <<symptom_nodes, has_symptom>>]_vars

\* C24 witness: on a store with edges, a call has failed after the driver was
\* closed by an earlier caller, and the store still holds its edges.
C24_Witness ==
    /\ req[1].pc = "returned"
    /\ req[1].fn = "diseases"
    /\ req[1].closed
    /\ req[1].result = <<>>
    /\ Cardinality(has_symptom) >= 2
    /\ symptom_nodes = {e[2] : e \in has_symptom}

\* a string without capitals and without whitespace at either end
IsLowerTrimmed(x) ==
    /\ \A i \in 1..Len(x) : \A u \in 1..Len(UpperChars) : x[i] # UpperChars[u]
    /\ x # <<>> => (x[1] \notin Whitespace /\ x[Len(x)] \notin Whitespace)

\* the list caller r's call of get_diseases_from_neo4j sends to the query
SentToQuery(r) == symptom_list(req[r].user_symptoms)

\* C25: the key normalize_symptom looks up is lower-case and trimmed; every
\* element of the list get_diseases_from_neo4j sends to the query is
\* lower-case and trimmed; and the query matches a stored symptom by its
\* lower-cased name: every matched symptom's lower-cased name is in the list
\* sent, and a disease with such a symptom is in the rows when top_n does not
\* cut them.
C25_LookupKeysLowerTrimmed ==
    /\ pc # "idle" => IsLowerTrimmed(s)
    /\ \A r \in Requests :
           req[r].fn = "diseases"
               => /\ \A i \in 1..Len(SentToQuery(r)) : IsLowerTrimmed(SentToQuery(r)[i])
                  /\ (ReturnedDiseases(r) /\ ~req[r].outage)
                         => /\ \A i \in 1..Len(req[r].result) :
                                   \A j \in 1..Len(req[r].result[i].matched_symptoms) :
                                       lower(req[r].result[i].matched_symptoms[j])
                                           \in Entries(SentToQuery(r))
                            /\ \A e \in has_symptom :
                                   (lower(e[2]) \in Entries(SentToQuery(r))
                                       /\ Len(req[r].result) < req[r].top_n)
                                       => \E i \in 1..Len(req[r].result) :
                                              req[r].result[i].disease = e[1]

\* C25 witness: a session resolved a token to the stored name Cough, passed
\* it to the matcher, which sent cough to the query and got Flu back.
C25_Witness ==
    /\ ses.pc = "matching"
    /\ ReturnedDiseases(1)
    /\ req[1].user_symptoms = << <<"C","o","u","g","h">> >>
    /\ SentToQuery(1) = << <<"c","o","u","g","h">> >>
    /\ Len(req[1].result) = 1
    /\ req[1].result[1].disease = "Flu"
    /\ req[1].result[1].matched_symptoms = << <<"C","o","u","g","h">> >>

\* the values normalize_symptom has returned in the running process
NormalizerOutputs == {ses.outcomes[k][1] : k \in Recognized}

\* C26 (as claimed): every symptom a caller passes to
\* get_diseases_from_neo4j is a value normalize_symptom returned for a token
\* of that caller; here the caller is the /analyze-symptoms endpoint.
C26_MatcherReceivesNormalizedOnly ==
    \A r \in Requests :
        req[r].fn = "diseases"
            => \A i \in 1..Len(req[r].user_symptoms) :
                   req[r].user_symptoms[i] \in NormalizerOutputs

\* C28: every entry of a result of get_diseases_from_neo4j has match_count at
\* least 1 and at least one matched symptom, each matched symptom's
\* lower-cased name is one of the lower-cased trimmed query symptoms, and no
\* two entries name the same disease.
C28_EntriesWellFormed ==
    ReturnedDiseases(1)
        => /\ \A i \in 1..Len(req[1].result) :
                  LET rec == req[1].result[i]
                  IN  /\ rec.match_count >= 1
                      /\ rec.matched_symptoms # <<>>
                      /\ \A j \in 1..Len(rec.matched_symptoms) :
                             lower(rec.matched_symptoms[j]) \in QuerySymptoms(1)
           /\ \A i, j \in 1..Len(req[1].result) :
                  req[1].result[i].disease = req[1].result[j].disease => i = j

\* C28 witness: a result of two entries on a store that also has a symptom
\* the query did not ask for; the first entry has two matched symptoms.
C28_Witness ==
    /\ ReturnedDiseases(1)
    /\ Len(req[1].result) = 2
    /\ Len(req[1].result[1].matched_symptoms) = 2
    /\ \E e \in has_symptom : lower(e[2]) \notin QuerySymptoms(1)

\* C29: when crew.py main has ended, by whichever exit, the driver is closed;
\* and a store function that is not running holds no open store session,
\* whether its query succeeded or failed.
C29_DriverClosedOnEveryExit ==
    /\ (ses.caller = "crew" /\ ses.pc = "done")
           => driver_closed /\ ses.exit # "none"
    /\ (ses.caller = "crew" /\ ses.exit # "none")
           => ses.pc \in {"closing", "done"}
    /\ \A r \in Requests :
           req[r].pc \in {"idle", "returned", "raised", "done"}
               => ~req[r].session_open

\* C29 witness: crew.py main has ended through its exception handler, after a
\* normalize_symptom call raised; the driver is closed and the fetch's store
\* session is released.
C29_Witness ==
    /\ ses.caller = "crew"
    /\ ses.pc = "done"
    /\ ses.exit = "exception"
    /\ driver_closed
    /\ req[1].pc = "returned"
    /\ ~req[1].session_open

\* C30: a crew.py session calls get_diseases_from_neo4j at most once, never
\* with an empty list, and builds a task only after that call; a session in
\* which no token was recognized ends with no matcher call and no task.
C30_MatcherOnceNonEmpty ==
    ses.caller = "crew"
        => /\ Len(ses.matcher_calls) <= 1
           /\ \A c \in 1..Len(ses.matcher_calls) : ses.matcher_calls[c] # <<>>
           /\ ses.task # <<>> => Len(ses.matcher_calls) = 1
           /\ (ses.pc \in {"closing", "done"} /\ Recognized = {})
                  => ses.matcher_calls = <<>> /\ ses.task = <<>>

\* C30 witness: a crew.py session has ended after its one token was
\* unrecognized, without a matcher call and without a task.
C30_Witness ==
    /\ ses.caller = "crew"
    /\ ses.pc = "done"
    /\ Len(ses.user_symptoms) = 1
    /\ ses.outcomes = <<None>>
    /\ ses.invalid_symptoms = ses.user_symptoms
    /\ ses.exit = "no_valid_symptom"
    /\ ses.matcher_calls = <<>>
    /\ ses.task = <<>>

====
